---- MODULE Spec2Model ----
(***************************************************************************)
(* Model of the Arch Linux repository database generator of liquid-mirror  *)
(* (src/src/pages/db/archlinux/generator.js): the release classifier, the  *)
(* metadata formatter, the ustar container builder and the GET handler     *)
(* that serves the generated artifacts.                                    *)
(*                                                                         *)
(* JavaScript strings are TLA+ strings, byte arrays (Uint8Array) are       *)
(* sequences of integers 0..255, and `undefined` is the value Undefined.   *)
(***************************************************************************)
EXTENDS Integers, Sequences, FiniteSets, TLC

(***************************************************************************)
(* Strings and bytes                                                       *)
(***************************************************************************)

\* Runs of consecutive ASCII characters with the code of their first one.
AsciiRuns ==
  << <<32, " !">>,
     <<35, "#$%&'()*+,-./0123456789:;<=>?@ABCDEFGHIJKLMNOPQRSTUVWXYZ[">>,
     <<93, "]^_">>,
     <<97, "abcdefghijklmnopqrstuvwxyz{|}~">>,
     <<10, "\n">> >>

RECURSIVE RunCodes(_, _, _)
\* The codes of the characters of one run, from its i-th character on.
RunCodes(base, run, i) ==
  IF i > Len(run) THEN <<>>
  ELSE (SubSeq(run, i, i) :> (base + i - 1)) @@ RunCodes(base, run, i + 1)

RECURSIVE AllCodes(_)
AllCodes(r) ==
  IF r > Len(AsciiRuns) THEN <<>>
  ELSE RunCodes(AsciiRuns[r][1], AsciiRuns[r][2], 1) @@ AllCodes(r + 1)

\* The UTF-8 code of a one-character (ASCII) string.
Codes == AllCodes(1)

\* A byte array held as a sequence of n bytes.
Uint8Array(f, n) == SubSeq(f, 1, n)

\* TextEncoder.encode on ASCII text: one byte per character.
encode(str) == Uint8Array([i \in 1..Len(str) |-> Codes[SubSeq(str, i, i)]], Len(str))

Min(a, b) == IF a < b THEN a ELSE b

\* n zero bytes: new Uint8Array(n).
Zeros(n) == Uint8Array([i \in 1..n |-> 0], n)

\* The JavaScript value undefined; no captured group or input string equals it.
Undefined == "<undefined>"

\* A value inside a template literal: undefined prints as "undefined".
Str(v) == IF v = Undefined THEN "undefined" ELSE v

\* A value as Array.prototype.join prints it: undefined is the empty string.
JoinStr(v) == IF v = Undefined THEN "" ELSE v

RECURSIVE join(_, _)
\* Array.prototype.join over an array of strings, joined half by half.
join(arr, sep) ==
  IF arr = <<>> THEN ""
  ELSE IF Len(arr) = 1 THEN JoinStr(arr[1])
  ELSE join(SubSeq(arr, 1, Len(arr) \div 2), sep) \o sep
         \o join(SubSeq(arr, Len(arr) \div 2 + 1, Len(arr)), sep)

\* String.prototype.endsWith.
endsWith(s, suffix) ==
  /\ Len(suffix) <= Len(s)
  /\ SubSeq(s, Len(s) - Len(suffix) + 1, Len(s)) = suffix

\* Whether lit occurs in s at index i (1-based).
StartsAt(s, i, lit) ==
  /\ i + Len(lit) - 1 <= Len(s)
  /\ SubSeq(s, i, i + Len(lit) - 1) = lit

Digits == {"0", "1", "2", "3", "4", "5", "6", "7", "8", "9"}

\* The index after the longest run of digits of s that starts at i.
DigitsEnd(s, i) ==
  LET stops == { j \in i..(Len(s) + 1) : j = Len(s) + 1 \/ SubSeq(s, j, j) \notin Digits }
  IN CHOOSE j \in stops : \A k \in stops : j <= k

RECURSIVE replaceUnderscores(_)
\* String.prototype.replace(/_/g, '.').
replaceUnderscores(s) ==
  IF s = "" THEN ""
  ELSE IF Len(s) = 1 THEN (IF s = "_" THEN "." ELSE s)
  ELSE replaceUnderscores(SubSeq(s, 1, Len(s) \div 2))
         \o replaceUnderscores(SubSeq(s, Len(s) \div 2 + 1, Len(s)))

RECURSIVE toOctal(_)
\* Number.prototype.toString(8) of a non-negative integer.
toOctal(n) ==
  IF n < 8 THEN ToString(n) ELSE toOctal(n \div 8) \o ToString(n % 8)

RECURSIVE padStart(_, _, _)
\* String.prototype.padStart with a one-character filler.
padStart(s, len, fill) ==
  IF Len(s) >= len THEN s ELSE padStart(fill \o s, len, fill)

(***************************************************************************)
(* REPO_CONFIG                                                             *)
(***************************************************************************)

maxPackages == 3

architectures == <<"x86_64">>

\* /(\d+\.\d+\.\d+_liquid-\d+)/ as regular-expression pieces.
VersionGroup ==
  << [t |-> "open"], [t |-> "digits"], [t |-> "lit", s |-> "."],
     [t |-> "digits"], [t |-> "lit", s |-> "."], [t |-> "digits"],
     [t |-> "lit", s |-> "_liquid-"], [t |-> "digits"], [t |-> "close"] >>

ArchGroup == << [t |-> "open"], [t |-> "lit", s |-> "x86_64"], [t |-> "close"] >>

\* The two anchored patterns of REPO_CONFIG.packagePatterns, in order.
packagePatterns ==
  << << [t |-> "lit", s |-> "linux-upstream-"] >>
       \o VersionGroup \o << [t |-> "lit", s |-> "-"] >> \o ArchGroup
       \o << [t |-> "lit", s |-> ".pkg.tar.zst"] >>,
     << [t |-> "lit", s |-> "linux-upstream-"],
        [t |-> "open"], [t |-> "alt", opts |-> <<"rt", "zen", "lts">>], [t |-> "close"],
        [t |-> "lit", s |-> "-"] >>
       \o VersionGroup \o << [t |-> "lit", s |-> "-"] >> \o ArchGroup
       \o << [t |-> "lit", s |-> ".pkg.tar.zst"] >> >>

(***************************************************************************)
(* Regular-expression matching (String.prototype.match / RegExp.test on an *)
(* anchored pattern): the match array <<whole, group1, ...>>, or NoMatch.  *)
(***************************************************************************)

NoMatch == <<>>

\* The states a backtracking matcher can reach by one piece p from state st
\* (index i, captured groups, start of the open group).  rank records the
\* choices made, in the order the matcher tries them: \d+ is greedy (the
\* longest run is choice 0), an alternation tries its options left to right.
Step(s, st, p) ==
  CASE p.t = "lit" ->
         IF StartsAt(s, st.i, p.s) THEN { [st EXCEPT !.i = @ + Len(p.s)] } ELSE {}
    [] p.t = "digits" ->
         { [st EXCEPT !.i = e, !.rank = Append(@, DigitsEnd(s, st.i) - e)] :
             e \in (st.i + 1)..DigitsEnd(s, st.i) }
    [] p.t = "alt" ->
         { [st EXCEPT !.i = @ + Len(p.opts[a]), !.rank = Append(@, a)] :
             a \in { b \in DOMAIN p.opts : StartsAt(s, st.i, p.opts[b]) } }
    [] p.t = "open" -> { [st EXCEPT !.open = st.i] }
    [] p.t = "close" ->
         { [st EXCEPT !.caps = Append(@, SubSeq(s, st.open, st.i - 1)), !.open = 0] }

RECURSIVE Paths(_, _, _, _, _)
\* The states reached by pieces lo..hi of pat from st: every way through the
\* first half, continued through the second half.
Paths(s, st, pat, lo, hi) ==
  IF lo = hi THEN Step(s, st, pat[lo])
  ELSE UNION { Paths(s, mid, pat, (lo + hi) \div 2 + 1, hi) :
                 mid \in Paths(s, st, pat, lo, (lo + hi) \div 2) }

\* Whether the matcher tries the choices a before the choices b.
Earlier(a, b) ==
  \E k \in DOMAIN a : a[k] < b[k] /\ \A j \in 1..(k - 1) : a[j] = b[j]

\* An anchored pattern matches with the first path tried that ends at the end
\* of s.
match(s, pattern) ==
  LET whole == { st \in Paths(s, [i |-> 1, caps |-> <<>>, open |-> 0, rank |-> <<>>],
                              pattern, 1, Len(pattern)) : st.i = Len(s) + 1 }
  IN IF whole = {} THEN NoMatch
     ELSE <<s>> \o (CHOOSE st \in whole :
                      \A o \in whole : o = st \/ Earlier(st.rank, o.rank)).caps

\* Element k (0-based, as in JavaScript) of a match array.
Group(m, k) == IF k + 1 <= Len(m) THEN m[k + 1] ELSE Undefined

(***************************************************************************)
(* Dates.  A Date is modelled by its whole epoch seconds: the upstream     *)
(* timestamps ("2024-02-01T00:00:00Z") carry no fraction, so getTime() is  *)
(* 1000 times this value and the sign of a difference is unchanged.        *)
(***************************************************************************)

RECURSIVE parseInt(_)
parseInt(s) ==
  IF s = "" THEN 0
  ELSE 10 * parseInt(SubSeq(s, 1, Len(s) - 1)) + (Codes[SubSeq(s, Len(s), Len(s))] - 48)

\* Days from 1970-01-01 to the civil date y-m-d (proleptic Gregorian).
daysFromCivil(y, m, d) ==
  LET yy == IF m <= 2 THEN y - 1 ELSE y
      era == yy \div 400
      yoe == yy - era * 400
      doy == (153 * (m + (IF m > 2 THEN -3 ELSE 9)) + 2) \div 5 + d - 1
      doe == yoe * 365 + yoe \div 4 - yoe \div 100 + doy
  IN era * 146097 + doe - 719468

\* new Date("YYYY-MM-DDTHH:MM:SSZ"), in epoch seconds.
newDate(iso) ==
  daysFromCivil(parseInt(SubSeq(iso, 1, 4)), parseInt(SubSeq(iso, 6, 7)),
                parseInt(SubSeq(iso, 9, 10))) * 86400
    + parseInt(SubSeq(iso, 12, 13)) * 3600
    + parseInt(SubSeq(iso, 15, 16)) * 60
    + parseInt(SubSeq(iso, 18, 19))

(***************************************************************************)
(* Release classifier                                                      *)
(***************************************************************************)

\* #validatePackage: some pattern matches and the name ends with an
\* allow-listed architecture followed by ".pkg.tar.zst".
validatePackage(asset) ==
  \E p \in DOMAIN packagePatterns :
    /\ match(asset.name, packagePatterns[p]) # NoMatch
    /\ \E a \in DOMAIN architectures :
         endsWith(asset.name, architectures[a] \o ".pkg.tar.zst")

\* The index of the first pattern that matches name, or 0.
firstMatching(name) ==
  IF \E p \in DOMAIN packagePatterns : match(name, packagePatterns[p]) # NoMatch
  THEN CHOOSE p \in DOMAIN packagePatterns :
         /\ match(name, packagePatterns[p]) # NoMatch
         /\ \A q \in 1..(p - 1) : match(name, packagePatterns[q]) = NoMatch
  ELSE 0

Null == [null |-> TRUE]

\* The destructuring const [_, variant, version, arch] = match.
destructure(m) == [variant |-> Group(m, 1), version |-> Group(m, 2), arch |-> Group(m, 3)]

\* #parsePackageInfo: the record built from the first matching pattern.
parsePackageInfo(asset, release) ==
  IF firstMatching(asset.name) = 0 THEN Null
  ELSE LET g == destructure(match(asset.name, packagePatterns[firstMatching(asset.name)])) IN
       [ name        |-> IF g.variant # Undefined /\ g.variant # ""
                         THEN "linux-upstream-" \o Str(g.variant) ELSE "linux-upstream",
         variant     |-> IF g.variant # Undefined /\ g.variant # ""
                         THEN g.variant ELSE "default",
         version     |-> g.version,
         arch        |-> g.arch,
         filename    |-> asset.name,
         size        |-> asset.size,
         downloadUrl |-> asset.browser_download_url,
         publishedAt |-> newDate(release.published_at),
         releaseTag  |-> release.tag_name ]

RECURSIVE collectAssets(_, _)
\* The inner loop of generateDatabase over one release's assets.
collectAssets(assets, release) ==
  IF assets = <<>> THEN <<>>
  ELSE LET pkg == IF validatePackage(Head(assets))
                  THEN parsePackageInfo(Head(assets), release) ELSE Null IN
       (IF pkg # Null THEN <<pkg>> ELSE <<>>) \o collectAssets(Tail(assets), release)

\* A faulty variant of skipRelease: draft releases are enumerated like the others.
neverSkip(release) == FALSE

\* Whether generateDatabase skips the release (if (release.draft) continue).
skipRelease(release) == release.draft

RECURSIVE collectPackages(_)
\* The outer loop: every valid package of every release that is not a draft.
collectPackages(releases) ==
  IF releases = <<>> THEN <<>>
  ELSE (IF skipRelease(Head(releases)) THEN <<>>
        ELSE collectAssets(Head(releases).assets, Head(releases)))
         \o collectPackages(Tail(releases))

\* A faulty variant of compare: oldest first.
compareAscending(a, b) == a.publishedAt - b.publishedAt

\* The comparator (a, b) => b.publishedAt - a.publishedAt.
compare(a, b) == b.publishedAt - a.publishedAt

RECURSIVE insertSorted(_, _)
\* Stable insertion: pkg goes before the first element that must follow it.
insertSorted(sorted, pkg) ==
  IF sorted = <<>> THEN <<pkg>>
  ELSE IF compare(Head(sorted), pkg) > 0 THEN <<pkg>> \o sorted
  ELSE <<Head(sorted)>> \o insertSorted(Tail(sorted), pkg)

RECURSIVE sort(_)
\* Array.prototype.sort with the comparator above (a stable sort).
sort(packages) ==
  IF packages = <<>> THEN <<>>
  ELSE insertSorted(sort(SubSeq(packages, 1, Len(packages) - 1)), packages[Len(packages)])

\* packages.slice(0, REPO_CONFIG.maxPackages).
slice(packages) == SubSeq(packages, 1, Min(Len(packages), maxPackages))

\* The packages generateDatabase retains from a release list.
latestPackagesOf(releases) == slice(sort(collectPackages(releases)))

(***************************************************************************)
(* Metadata formatter                                                      *)
(***************************************************************************)

\* A faulty variant of provides: the package provides its own name.
providesBaseName(pkg) ==
  IF pkg.variant = "default" THEN <<>> ELSE <<Str(pkg.name) \o "=" \o Str(pkg.version)>>

\* The provides array of #generateDescContent.
provides(pkg) ==
  IF pkg.variant = "default" THEN <<>> ELSE <<"linux-upstream=" \o Str(pkg.version)>>

\* The lines of #generateDescContent, before they are joined.
descLines(pkg) ==
  << "%FILENAME%", pkg.filename,
     "%NAME%", pkg.name,
     "%BASE%", pkg.name,
     "%VERSION%", pkg.version,
     "%DESC%", "Liquid Kernel for Arch Linux",
     "%GROUPS%", "linux-upstream",
     "%URL%", "https://github.com/liquidprjkt/liquid_kernel_desktop_x86",
     "%LICENSE%", "GPL2",
     "%ARCH%", pkg.arch,
     "%PROVIDES%", join(provides(pkg), "\n"),
     "%DEPENDS%", "linux-firmware",
     "%OPTDEPENDS%", "wireless-regdb: to set the correct wireless channels of your country",
     "%CONFLICTS%", "linux",
     "%REPLACES%", "linux",
     "%BUILDDATE%", ToString(pkg.publishedAt),
     "%PACKAGER%", "Liquid Mirror <hi@zamkara.tech>",
     "%SIZE%", ToString(pkg.size),
     "" >>

generateDescContent(pkg) == join(descLines(pkg), "\n")

generateFilesContent(pkg) ==
  LET kernelVersion == replaceUnderscores(pkg.version)
      files == << "." \o pkg.filename,
                  "/usr/lib/modules/" \o kernelVersion \o "/vmlinuz",
                  "/usr/lib/modules/" \o kernelVersion \o "/build",
                  "/usr/lib/modules/" \o kernelVersion \o "/kernel",
                  "/boot/initramfs-" \o kernelVersion \o ".img",
                  "/boot/System.map-" \o kernelVersion >>
                \o (IF pkg.variant = "default"
                    THEN << "/boot/vmlinuz-" \o kernelVersion,
                            "/usr/src/linux-" \o kernelVersion >>
                    ELSE <<>>)
  IN join(files, "\n") \o "\n"

generateDependsContent(pkg) == join(<<"linux-firmware", "wireless-regdb", "">>, "\n")

(***************************************************************************)
(* Archive container builder (POSIX ustar)                                 *)
(***************************************************************************)

\* The closure write(offset, str, length) of #makeTarHeader on the encoded
\* string: buf.set(data.slice(0, length), offset).  Offsets are 0-based.
write(buf, offset, data, length) ==
  SubSeq(buf, 1, offset)
    \o SubSeq(data, 1, Min(Len(data), length))
    \o SubSeq(buf, offset + Min(Len(data), length) + 1, 512)

\* The bytes of str.padEnd(len, '\0').
padEndNul(bytes, len) ==
  IF Len(bytes) >= len THEN bytes ELSE bytes \o Zeros(len - Len(bytes))

\* The bytes of str + '\0'.
nulTerminated(str) == encode(str) \o <<0>>

RECURSIVE SumRange(_, _, _)
\* The loop for (i = 0; i < 512; i++) sum += buf[i], over buf[lo..hi].
SumRange(buf, lo, hi) ==
  IF lo > hi THEN 0
  ELSE IF lo = hi THEN buf[lo]
  ELSE SumRange(buf, lo, (lo + hi) \div 2) + SumRange(buf, (lo + hi) \div 2 + 1, hi)

\* A faulty variant of checksumPlaceholder: the field is left zeroed while the sum is taken.
checksumPlaceholderZeros == Zeros(8)

\* The checksum placeholder written before the sum: eight spaces.
checksumPlaceholder == encode("        ")

\* The header fields written before the checksum is computed.  now is
\* Math.floor(Date.now() / 1000).
headerFields(name, size, now) ==
  LET b1 == write(Zeros(512), 0, padEndNul(encode(name), 100), 100)
      b2 == write(b1, 100, nulTerminated("000644"), 8)
      b3 == write(b2, 108, nulTerminated("000000"), 8)
      b4 == write(b3, 116, nulTerminated("000000"), 8)
      b5 == write(b4, 124, nulTerminated(padStart(toOctal(size), 11, "0")), 12)
      b6 == write(b5, 136, nulTerminated(padStart(toOctal(now), 11, "0")), 12)
      b7 == write(b6, 148, checksumPlaceholder, 8)
      b8 == write(b7, 156, encode("0"), 1)
      b9 == write(b8, 257, nulTerminated("ustar"), 6)
  IN write(b9, 263, encode("00"), 2)

\* #makeTarHeader.
makeTarHeader(name, size, now) ==
  LET buf == headerFields(name, size, now)
      sum == SumRange(buf, 1, 512)
  IN write(buf, 148, encode(padStart(toOctal(sum), 6, "0")) \o <<0, 32>>, 8)

\* A faulty variant of padSize: the outer reduction is missing.
padSizeUnreduced(length) == 512 - (length % 512)

\* const padSize = (512 - (file.content.length % 512)) % 512.
padSize(length) == (512 - (length % 512)) % 512

\* The blocks #buildTarArchive pushes for one file.
fileBlocks(file, now) ==
  makeTarHeader(file.name, Len(file.content), now)
    \o file.content
    \o (IF padSize(Len(file.content)) > 0 THEN Zeros(padSize(Len(file.content))) ELSE <<>>)

\* The end-of-archive marker: new Uint8Array(1024).
endOfArchive == Zeros(1024)

RECURSIVE archiveBlocks(_, _, _)
archiveBlocks(files, clock, k) ==
  IF k > Len(files) THEN endOfArchive
  ELSE fileBlocks(files[k], clock[k]) \o archiveBlocks(files, clock, k + 1)

\* #buildTarArchive; clock[k] is the clock reading taken for the k-th header.
buildTarArchive(files, clock) == archiveBlocks(files, clock, 1)

\* pako's gzip, kept abstract: an opaque wrapper that gunzip undoes.
gzip(bytes) == [gzip |-> bytes]

\* #generateDummySignature: 512 bytes drawn by crypto.getRandomValues; seed
\* names the draw.
generateDummySignature(seed) ==
  Uint8Array([i \in 1..512 |-> (seed * 89 + i * 151) % 256], 512)

(***************************************************************************)
(* generateDatabase, after the release list has arrived                    *)
(***************************************************************************)

dirName(pkg) == Str(pkg.name) \o "-" \o Str(pkg.version) \o "-" \o Str(pkg.arch)

RECURSIVE dbEntriesOf(_)
\* dbEntries: for each package its desc entry, then its depends entry.
dbEntriesOf(packages) ==
  IF packages = <<>> THEN <<>>
  ELSE << [name |-> dirName(Head(packages)) \o "/desc",
           content |-> encode(generateDescContent(Head(packages)))],
          [name |-> dirName(Head(packages)) \o "/depends",
           content |-> encode(generateDependsContent(Head(packages)))] >>
         \o dbEntriesOf(Tail(packages))

RECURSIVE filesEntriesOf(_)
\* filesEntries: for each package its files entry.
filesEntriesOf(packages) ==
  IF packages = <<>> THEN <<>>
  ELSE << [name |-> dirName(Head(packages)) \o "/files",
           content |-> encode(generateFilesContent(Head(packages)))] >>
         \o filesEntriesOf(Tail(packages))

\* The object generateDatabase returns for a release list, a clock reading and
\* the two random draws.
buildArtifacts(releases, now, dbSeed, filesSeed) ==
  LET latestPackages == latestPackagesOf(releases)
      dbEntries == dbEntriesOf(latestPackages)
      filesEntries == filesEntriesOf(latestPackages)
  IN [ packages |-> latestPackages,
       db       |-> gzip(buildTarArchive(dbEntries, [k \in DOMAIN dbEntries |-> now])),
       dbSig    |-> generateDummySignature(dbSeed),
       files    |-> gzip(buildTarArchive(filesEntries, [k \in DOMAIN filesEntries |-> now])),
       filesSig |-> generateDummySignature(filesSeed) ]

(***************************************************************************)
(* The GET handler                                                         *)
(***************************************************************************)

isDb(pathname) == endsWith(pathname, ".db")

isFiles(pathname) == endsWith(pathname, ".files")

isSig(pathname) == endsWith(pathname, ".sig")

\* The Response of the try block, for the artifacts generateDatabase returned.
okResponse(pathname, artifacts) ==
  IF isSig(pathname)
  THEN [ status          |-> 200,
         body            |-> IF isDb(pathname) THEN artifacts.dbSig ELSE artifacts.filesSig,
         contentType     |-> "application/pgp-signature",
         contentEncoding |-> Undefined,
         cacheControl    |-> "public, max-age=31536000" ]
  ELSE [ status          |-> 200,
         body            |-> IF isDb(pathname) THEN artifacts.db ELSE artifacts.files,
         contentType     |-> IF isDb(pathname) THEN "application/vnd.pacman.db"
                                                ELSE "application/vnd.pacman.files",
         contentEncoding |-> "gzip",
         cacheControl    |-> "public, max-age=300" ]

\* A faulty variant of errorResponse: the failure is answered with the default status.
errorResponseOk(message) ==
  [ status          |-> 200,
    body            |-> "Error generating repository: " \o message,
    contentType     |-> "text/plain",
    contentEncoding |-> Undefined,
    cacheControl    |-> Undefined ]

\* The Response of the catch block.
errorResponse(message) ==
  [ status          |-> 500,
    body            |-> "Error generating repository: " \o message,
    contentType     |-> "text/plain",
    contentEncoding |-> Undefined,
    cacheControl    |-> Undefined ]

\* The message of the Error #fetchReleases throws on a response that is not OK.
apiErrorMessage(resp) ==
  "GitHub API error: " \o ToString(resp.status) \o " - " \o resp.text

(***************************************************************************)
(* Inputs                                                                  *)
(***************************************************************************)

Asset(name, size) ==
  [ name |-> name, size |-> size,
    browser_download_url |-> "https://github.com/liquidprjkt/liquid_kernel_desktop_x86/releases/download/" \o name ]

aDefault == Asset("linux-upstream-6.6.1_liquid-2-x86_64.pkg.tar.zst", 150000000)
aZen == Asset("linux-upstream-zen-6.6.1_liquid-2-x86_64.pkg.tar.zst", 151000000)
aLts == Asset("linux-upstream-lts-6.1.90_liquid-1-x86_64.pkg.tar.zst", 140000000)
aRt == Asset("linux-upstream-rt-6.6.1_liquid-10-x86_64.pkg.tar.zst", 152000000)
aFoo == Asset("foo-1.0.pkg.tar.zst", 1024)
aShortVersion == Asset("linux-upstream-zen-6.6_liquid-2-x86_64.pkg.tar.zst", 2048)
aOtherArch == Asset("linux-upstream-zen-6.6.1_liquid-2-aarch64.pkg.tar.zst", 4096)
\* A build number of 60 digits: the archive path is longer than 100 bytes.
aLongVersion ==
  Asset("linux-upstream-zen-6.6.1_liquid-"
          \o "123456789012345678901234567890123456789012345678901234567890"
          \o "-x86_64.pkg.tar.zst", 153000000)

Release(tag, published, draft, assets) ==
  [ tag_name |-> tag, published_at |-> published, draft |-> draft, assets |-> assets ]

rFebruary == Release("v6.6.1-2", "2024-02-01T00:00:00Z", FALSE, <<aFoo, aZen, aDefault>>)
rJanuary == Release("v6.1.90-1", "2024-01-01T00:00:00Z", FALSE, <<aLts, aShortVersion>>)
rDraft == Release("v6.7.0-draft", "2024-03-01T00:00:00Z", TRUE, <<aRt, aZen>>)
rFebruaryRt == Release("v6.6.1-10", "2024-02-01T00:00:00Z", FALSE, <<aRt, aOtherArch, aLts>>)
rLong == Release("v6.6.1-long", "2024-01-15T12:30:45Z", FALSE, <<aLongVersion>>)
\* A release with no assets property: release.assets || [] is the empty list.
rEmpty == Release("v0.0.0", "2023-12-01T00:00:00Z", FALSE, <<>>)

Releases == {rFebruary, rJanuary, rDraft, rFebruaryRt, rLong, rEmpty}

\* The longest release list the upstream answers with.
MaxReleases == 2

ReleaseLists == UNION { [1..n -> Releases] : n \in 0..MaxReleases }

\* The release lists the upstream answers with while every pathname is requested.
ServedReleaseLists == { <<rFebruary, rFebruaryRt>>, <<rJanuary>>, <<>> }

\* The release lists the upstream answers with while two requests are in flight.
ConcurrentReleaseLists == { <<rFebruary, rFebruaryRt>>, <<rJanuary>> }

OkResponses(lists) ==
  { [ok |-> TRUE, status |-> 200, releases |-> l, text |-> ""] : l \in lists }

ErrorResponses ==
  { [ok |-> FALSE, status |-> 403, releases |-> <<>>, text |-> "API rate limit exceeded"] }

\* Readings of Math.floor(Date.now() / 1000).
Times == {1762075800, 1762075801}

\* Draws of crypto.getRandomValues.
Seeds == {1, 2}

\* What one run of generateDatabase reads from its environment: the clock and
\* the two random draws.
Draws == [now : Times, dbSeed : Seeds, filesSeed : Seeds]

\* The draws whose two signatures differ in the same way.
DistinctDraws == { d \in Draws : d.dbSeed = 1 /\ d.filesSeed = 2 }

DbPathname == "/db/archlinux/liquid.db"

Pathnames ==
  { DbPathname, "/db/archlinux/liquid.files",
    "/db/archlinux/liquid.db.sig", "/db/archlinux/liquid.files.sig",
    "/db/archlinux/" }

\* The requests in flight on the one exported generator.
Calls == {1, 2}

\* The longest entry list buildTarArchive is applied to on its own.
MaxEntries == 2

EntryNames ==
  { "linux-upstream-zen-6.6.1_liquid-2-x86_64/desc",
    "linux-upstream-zen-6.6.1_liquid-123456789012345678901234567890123456789012345678901234567890-x86_64/desc" }

ContentLengths == {0, 5, 512, 1023}

Entries ==
  { [name |-> n, content |-> Uint8Array([i \in 1..l |-> (i * 7 + l) % 256], l)] :
      n \in EntryNames, l \in ContentLengths }

EntryLists == UNION { [1..n -> Entries] : n \in 0..MaxEntries }

\* Clock readings for n headers: the clock never runs backwards.
Clocks(n) ==
  { c \in [1..n -> Times] : \A i \in 1..n, j \in 1..n : i <= j => c[i] <= c[j] }

(***************************************************************************)
(* State                                                                   *)
(***************************************************************************)
VARIABLES
  pc,        \* where each call stands: idle, fetch, text, json, generated, failed, done
  path,      \* the pathname each GET was called with
  upstream,  \* the response the network delivered to each call's fetch
  response,  \* the local variable response of #fetchReleases, per storage slot
  gen,       \* the outcome of each call's generateDatabase promise
  reply,     \* the Response each GET returned
  fetches,   \* how many times each call invoked fetch
  files,     \* the entry list given to buildTarArchive on its own
  clock,     \* the clock readings of that build
  tarData    \* the archive it returned (empty before the build)

vars == <<pc, path, upstream, response, gen, reply, fetches, files, clock, tarData>>

NoResponse == [ok |-> FALSE, status |-> 0, releases |-> <<>>, text |-> ""]

Pending == [state |-> "pending"]

Fulfilled(value) == [state |-> "fulfilled", value |-> value]

Rejected(message) == [state |-> "rejected", message |-> message]

NoReply == [status |-> 0]

\* A faulty variant of slot: the response is kept on the shared generator instance.
sharedSlot(c) == 1

\* Where a call keeps its local variables: each call has storage of its own.
slot(c) == c

InitCalls ==
  /\ pc = [c \in Calls |-> "idle"]
  /\ path = [c \in Calls |-> ""]
  /\ upstream = [c \in Calls |-> NoResponse]
  /\ response = [c \in Calls |-> NoResponse]
  /\ gen = [c \in Calls |-> Pending]
  /\ reply = [c \in Calls |-> NoReply]
  /\ fetches = [c \in Calls |-> 0]

Init ==
  /\ InitCalls
  /\ files = <<>>
  /\ clock = <<>>
  /\ tarData = <<>>

\* GET is called with a pathname: it calls generateDatabase, which calls
\* #fetchReleases, which runs up to the await of fetch.
GET(c, pathnames) ==
  /\ pc[c] = "idle"
  /\ \E p \in pathnames : path' = [path EXCEPT ![c] = p]
  /\ pc' = [pc EXCEPT ![c] = "fetch"]
  /\ fetches' = [fetches EXCEPT ![c] = @ + 1]
  /\ UNCHANGED <<upstream, response, gen, reply, files, clock, tarData>>

\* fetch resolves: the response is stored in the local variable, and the call
\* goes on to await response.json() or, when not OK, response.text().
FetchResolves(c, responses) ==
  /\ pc[c] = "fetch"
  /\ \E r \in responses :
       /\ upstream' = [upstream EXCEPT ![c] = r]
       /\ response' = [response EXCEPT ![slot(c)] = r]
       /\ pc' = [pc EXCEPT ![c] = IF r.ok THEN "json" ELSE "text"]
  /\ UNCHANGED <<path, gen, reply, fetches, files, clock, tarData>>

\* fetch rejects: the catch of generateDatabase logs and rethrows.
FetchRejects(c) ==
  /\ pc[c] = "fetch"
  /\ gen' = [gen EXCEPT ![c] = Rejected("fetch failed")]
  /\ pc' = [pc EXCEPT ![c] = "failed"]
  /\ UNCHANGED <<path, upstream, response, reply, fetches, files, clock, tarData>>

\* response.text() resolves on a response that is not OK: the Error is thrown.
TextResolves(c) ==
  /\ pc[c] = "text"
  /\ gen' = [gen EXCEPT ![c] = Rejected(apiErrorMessage(response[slot(c)]))]
  /\ pc' = [pc EXCEPT ![c] = "failed"]
  /\ UNCHANGED <<path, upstream, response, reply, fetches, files, clock, tarData>>

\* response.json() resolves: generateDatabase runs to its return without
\* another await.
JsonResolves(c, draws) ==
  /\ pc[c] = "json"
  /\ \E d \in draws :
       gen' = [gen EXCEPT ![c] =
                 Fulfilled(buildArtifacts(response[slot(c)].releases,
                                          d.now, d.dbSeed, d.filesSeed))]
  /\ pc' = [pc EXCEPT ![c] = "generated"]
  /\ UNCHANGED <<path, upstream, response, reply, fetches, files, clock, tarData>>

\* The await of generateDatabase in GET settles: the Response is built.
GETResumes(c) ==
  /\ pc[c] \in {"generated", "failed"}
  /\ reply' = [reply EXCEPT ![c] =
                 IF gen[c].state = "fulfilled"
                 THEN okResponse(path[c], gen[c].value)
                 ELSE errorResponse(gen[c].message)]
  /\ pc' = [pc EXCEPT ![c] = "done"]
  /\ UNCHANGED <<path, upstream, response, gen, fetches, files, clock, tarData>>

\* One request, for any pathname.
Next ==
  \/ GET(1, Pathnames)
  \/ FetchResolves(1, OkResponses(ServedReleaseLists) \cup ErrorResponses)
  \/ FetchRejects(1)
  \/ TextResolves(1)
  \/ JsonResolves(1, Draws)
  \/ GETResumes(1)

Spec == Init /\ [][Next]_vars

\* One request for the database, over every release list.
NextGen ==
  \/ GET(1, {DbPathname})
  \/ FetchResolves(1, OkResponses(ReleaseLists) \cup ErrorResponses)
  \/ FetchRejects(1)
  \/ TextResolves(1)
  \/ JsonResolves(1, DistinctDraws)
  \/ GETResumes(1)

SpecGen == Init /\ [][NextGen]_vars

\* Two requests for the database in flight together.
NextConcurrent ==
  \E c \in Calls :
    \/ GET(c, {DbPathname})
    \/ FetchResolves(c, OkResponses(ConcurrentReleaseLists) \cup ErrorResponses)
    \/ FetchRejects(c)
    \/ TextResolves(c)
    \/ JsonResolves(c, DistinctDraws)
    \/ GETResumes(c)

SpecConcurrent == Init /\ [][NextConcurrent]_vars

\* buildTarArchive applied on its own to every entry list.
InitTar ==
  /\ InitCalls
  /\ files \in EntryLists
  /\ clock = <<>>
  /\ tarData = <<>>

BuildTar ==
  /\ tarData = <<>>
  /\ \E c \in Clocks(Len(files)) :
       /\ clock' = c
       /\ tarData' = buildTarArchive(files, c)
  /\ UNCHANGED <<pc, path, upstream, response, gen, reply, fetches, files>>

NextTar == BuildTar

SpecTar == InitTar /\ [][NextTar]_vars

(***************************************************************************)
(* Reading an archive back, and other definitions the properties use       *)
(***************************************************************************)

gunzip(z) == z.gzip

Received(c) == upstream[c].releases

Generated(c) == gen[c].state = "fulfilled"

Artifacts(c) == gen[c].value

Range(seq) == { seq[i] : i \in DOMAIN seq }

\* The bytes of a header field from index lo, up to its first NUL.
FieldBytes(bytes, lo, width) ==
  LET nuls == { i \in lo..(lo + width - 1) : bytes[i] = 0 }
      end == IF nuls = {} THEN lo + width
             ELSE CHOOSE i \in nuls : \A j \in nuls : i <= j
  IN SubSeq(bytes, lo, end - 1)

RECURSIVE Pow8(_)
Pow8(n) == IF n = 0 THEN 1 ELSE 8 * Pow8(n - 1)

RECURSIVE OctalValue(_)
\* The number a sequence of ASCII octal digits denotes.
OctalValue(digits) ==
  IF digits = <<>> THEN 0
  ELSE IF Len(digits) = 1 THEN digits[1] - 48
  ELSE LET h == Len(digits) \div 2 IN
       OctalValue(SubSeq(digits, 1, h)) * Pow8(Len(digits) - h)
         + OctalValue(SubSeq(digits, h + 1, Len(digits)))

AllZero(bytes, lo, hi) == \A i \in lo..hi : bytes[i] = 0

RECURSIVE readEntries(_, _)
\* A ustar reader: the entries from index pos on, up to the two zero blocks.
readEntries(bytes, pos) ==
  IF pos + 511 > Len(bytes) THEN <<>>
  ELSE IF pos + 1023 <= Len(bytes) /\ AllZero(bytes, pos, pos + 1023) THEN <<>>
  ELSE LET size == OctalValue(FieldBytes(bytes, pos + 124, 12)) IN
       << [name |-> FieldBytes(bytes, pos, 100),
           content |-> SubSeq(bytes, pos + 512, pos + 511 + size)] >>
         \o readEntries(bytes, pos + 512 + ((size + 511) \div 512) * 512)

readTar(bytes) == readEntries(bytes, 1)

\* The entries as a reader should return them: names as bytes.
AsRead(entries) ==
  [k \in DOMAIN entries |-> [name |-> encode(entries[k].name), content |-> entries[k].content]]

\* What one entry of content length l occupies according to the format.
EntrySpan(l) == 512 + l + ((512 - (l % 512)) % 512)

RECURSIVE EntryOffset(_, _)
\* The number of bytes before the k-th entry of an archive of these entries.
EntryOffset(entries, k) ==
  IF k <= 1 THEN 0
  ELSE EntryOffset(entries, k - 1) + EntrySpan(Len(entries[k - 1].content))

RECURSIVE ByteSum(_, _)
\* The sum of the first n bytes.
ByteSum(bytes, n) ==
  IF n = 0 THEN 0
  ELSE IF n = 1 THEN bytes[1]
  ELSE ByteSum(SubSeq(bytes, 1, n \div 2), n \div 2)
         + ByteSum(SubSeq(bytes, n \div 2 + 1, n), n - n \div 2)

\* The header with its checksum field (offsets 148..155) reset to spaces.
ChecksumReset(header) ==
  SubSeq([i \in 1..512 |-> IF i \in 149..156 THEN 32 ELSE header[i]], 1, 512)

\* The line of text (as bytes) that starts at index i.
LineAt(bytes, i) ==
  LET ends == { j \in i..(Len(bytes) + 1) : j = Len(bytes) + 1 \/ bytes[j] = 10 }
  IN SubSeq(bytes, i, (CHOOSE j \in ends : \A k \in ends : j <= k) - 1)

\* The line that follows the first line equal to tag, searching from index i.
ValueUnder(bytes, tag, i) ==
  LET starts == { j \in i..Len(bytes) : (j = i \/ bytes[j - 1] = 10) /\ LineAt(bytes, j) = tag }
  IN IF starts = {} THEN <<>>
     ELSE LineAt(bytes, (CHOOSE j \in starts : \A k \in starts : j <= k) + Len(tag) + 1)

\* The asset names of the inputs that a configured pattern accepts.
AcceptedNames == { aDefault.name, aZen.name, aLts.name, aRt.name, aLongVersion.name }

\* The assets of the releases that are not drafts whose name is accepted.
PublishedAccepted(releases) ==
  { <<r, a>> \in (DOMAIN releases) \X (1..3) :
      /\ ~releases[r].draft
      /\ a \in DOMAIN releases[r].assets
      /\ releases[r].assets[a].name \in AcceptedNames }

\* The position in the sorted list of the k-th collected package: after every
\* newer one and after the earlier ones with the same date.
Rank(collected, k) ==
  1 + Cardinality({ j \in DOMAIN collected :
                      collected[j].publishedAt > collected[k].publishedAt })
    + Cardinality({ j \in 1..(k - 1) :
                      collected[j].publishedAt = collected[k].publishedAt })

UpstreamFailed(c) == pc[c] \in {"failed", "done"} /\ ~upstream[c].ok

(***************************************************************************)
(* Properties                                                              *)
(***************************************************************************)

\* C1: buildTarArchive emits per entry a 512-byte header, the L content
\* bytes and (512 - L mod 512) mod 512 zero bytes, each entry occupying a
\* multiple of 512 bytes; after the last entry come exactly 1024 zero bytes,
\* and the total length is a multiple of 512.
TarLayout ==
  tarData # <<>> =>
    /\ Len(tarData) = EntryOffset(files, Len(files) + 1) + 1024
    /\ Len(tarData) % 512 = 0
    /\ AllZero(tarData, Len(tarData) - 1023, Len(tarData))
    /\ \A k \in DOMAIN files :
         LET off == EntryOffset(files, k)
             l == Len(files[k].content)
         IN /\ EntrySpan(l) % 512 = 0
            /\ SubSeq(tarData, off + 1, off + 512) = makeTarHeader(files[k].name, l, clock[k])
            /\ SubSeq(tarData, off + 258, off + 262) = encode("ustar")
            /\ SubSeq(tarData, off + 513, off + 512 + l) = files[k].content
            /\ AllZero(tarData, off + 513 + l, off + EntrySpan(l))

TarLayoutWitness ==
  /\ tarData # <<>>
  /\ Len(files) = 2
  /\ Len(files[1].content) = 512
  /\ Len(files[2].content) = 1023
  /\ Len(tarData) = 1024 + 1536 + 1024

\* C2: in every header bytes 148..155 hold six octal digits, a NUL and a
\* space, and the digits denote the sum of the 512 header bytes taken with
\* bytes 148..155 replaced by spaces.
HeaderChecksum ==
  tarData # <<>> =>
    \A k \in DOMAIN files :
      LET off == EntryOffset(files, k)
          header == SubSeq(tarData, off + 1, off + 512)
      IN /\ \A i \in 149..154 : header[i] \in 48..55
         /\ header[155] = 0
         /\ header[156] = 32
         /\ OctalValue(SubSeq(header, 149, 154)) = ByteSum(ChecksumReset(header), 512)

HeaderChecksumWitness ==
  /\ tarData # <<>>
  /\ Len(files) = 2
  /\ Len(files[1].name) > 100
  /\ clock[1] # clock[2]
  /\ OctalValue(SubSeq(tarData, 149, 154)) > 256

\* C3: reading the archives back yields exactly the entries that were
\* packed, names and contents, in order, for every entry list the generator
\* builds (paths longer than 100 bytes included).
ArchiveRoundTrip ==
  \A c \in Calls :
    Generated(c) =>
      /\ readTar(gunzip(Artifacts(c).db)) = AsRead(dbEntriesOf(Artifacts(c).packages))
      /\ readTar(gunzip(Artifacts(c).files)) = AsRead(filesEntriesOf(Artifacts(c).packages))

\* C4: the retained packages are at most maxPackages (3), newest first, the
\* first ones of the sorted list of all valid packages, with equal dates in
\* enumeration order.
RetainedNewestFirst ==
  \A c \in Calls :
    Generated(c) =>
      LET collected == collectPackages(Received(c))
          retained == Artifacts(c).packages
      IN /\ Len(retained) <= 3
         /\ Len(retained) = Min(Len(collected), 3)
         /\ \A i \in DOMAIN retained, j \in DOMAIN retained :
              i < j => retained[i].publishedAt >= retained[j].publishedAt
         /\ \A k \in DOMAIN collected :
              Rank(collected, k) <= 3 => retained[Rank(collected, k)] = collected[k]

RetainedNewestFirstWitness ==
  /\ Generated(1)
  /\ Received(1) = <<rJanuary, rFebruary>>
  /\ Len(Artifacts(1).packages) = 3
  /\ Artifacts(1).packages[1].releaseTag = rFebruary.tag_name
  /\ Artifacts(1).packages[2].releaseTag = rFebruary.tag_name
  /\ Artifacts(1).packages[3].releaseTag = rJanuary.tag_name

\* C5: every record carries the fields of its filename: baseName
\* linux-upstream-<t> and variant t for a variant token t, baseName
\* linux-upstream and variant default otherwise, version the version token
\* and architecture the allow-listed architecture token.
FieldsFromFilename(pkg) ==
  /\ \/ pkg.variant = "default" /\ pkg.name = "linux-upstream"
     \/ pkg.variant \in {"rt", "zen", "lts"} /\ pkg.name = "linux-upstream-" \o pkg.variant
  /\ pkg.arch \in Range(architectures)
  /\ pkg.filename = pkg.name \o "-" \o pkg.version \o "-" \o pkg.arch \o ".pkg.tar.zst"

ClassifierFields ==
  \A c \in Calls :
    Generated(c) =>
      \A i \in DOMAIN Artifacts(c).packages : FieldsFromFilename(Artifacts(c).packages[i])

\* The value under %PROVIDES% in the desc entry of the i-th retained package.
ProvidesValue(c, i) ==
  ValueUnder(readTar(gunzip(Artifacts(c).db))[2 * i - 1].content, encode("%PROVIDES%"), 1)

\* C6 as stated: the value under %PROVIDES% is empty for variant default and
\* otherwise <baseName>=<version>.
ProvidesBaseName ==
  \A c \in Calls :
    Generated(c) =>
      \A i \in DOMAIN Artifacts(c).packages :
        LET pkg == Artifacts(c).packages[i] IN
        ProvidesValue(c, i) = IF pkg.variant = "default" THEN <<>>
                              ELSE encode(pkg.name \o "=" \o pkg.version)

\* C6 as amended: the value under %PROVIDES% is empty for variant default
\* and otherwise linux-upstream=<version>, with the version of the record.
ProvidesLinuxUpstream ==
  \A c \in Calls :
    Generated(c) =>
      \A i \in DOMAIN Artifacts(c).packages :
        LET pkg == Artifacts(c).packages[i] IN
        ProvidesValue(c, i) = IF pkg.variant = "default" THEN <<>>
                              ELSE encode("linux-upstream=" \o pkg.version)

ProvidesWitness ==
  /\ Generated(1)
  /\ Len(Artifacts(1).packages) >= 2
  /\ Artifacts(1).packages[2].variant = "lts"
  /\ ProvidesValue(1, 2) = encode("linux-upstream=6.1.90_liquid-1")

\* C7: the Response carries the artifact the pathname asks for: the database
\* for .db, the file list for .files, the stand-in generated for the
\* database for .db.sig and the one generated for the file list for
\* .files.sig.
ServesRequestedArtifact ==
  \A c \in Calls :
    (pc[c] = "done" /\ Generated(c)) =>
      /\ endsWith(path[c], ".db.sig") => reply[c].body = Artifacts(c).dbSig
      /\ endsWith(path[c], ".files.sig") => reply[c].body = Artifacts(c).filesSig
      /\ endsWith(path[c], ".db") =>
           /\ reply[c].body = Artifacts(c).db
           /\ readTar(gunzip(reply[c].body)) = AsRead(dbEntriesOf(Artifacts(c).packages))
      /\ endsWith(path[c], ".files") =>
           /\ reply[c].body = Artifacts(c).files
           /\ readTar(gunzip(reply[c].body)) = AsRead(filesEntriesOf(Artifacts(c).packages))

\* C8 as stated: when the release listing fails, fetch was called once, no
\* artifact is returned, and GET answers with a server-error status and a
\* plain-text body prefixed "# Error:".
FailureAnsweredHashError ==
  \A c \in Calls :
    UpstreamFailed(c) =>
      /\ fetches[c] = 1
      /\ gen[c].state = "rejected"
      /\ pc[c] = "done" =>
           /\ reply[c].status \in 500..599
           /\ reply[c].contentType = "text/plain"
           /\ StartsAt(reply[c].body, 1, "# Error:")

\* C8 as amended: when the release listing fails, fetch was called once, no
\* artifact is returned, and GET answers with status 500 and a plain-text
\* body prefixed "Error generating repository: ".
FailureAnswered ==
  \A c \in Calls :
    UpstreamFailed(c) =>
      /\ fetches[c] = 1
      /\ gen[c].state = "rejected"
      /\ pc[c] = "done" =>
           /\ reply[c].status = 500
           /\ reply[c].contentType = "text/plain"
           /\ StartsAt(reply[c].body, 1, "Error generating repository: ")

FailureAnsweredWitness ==
  /\ pc[1] = "done"
  /\ upstream[1] \in ErrorResponses
  /\ reply[1].body = "Error generating repository: GitHub API error: 403 - API rate limit exceeded"

\* C9: every retained record comes from an asset with an accepted name of a
\* release that is not a draft; drafts and other assets contribute nothing,
\* and never make the generation fail.
OnlyPublishedAccepted ==
  \A c \in Calls :
    /\ upstream[c].ok => gen[c].state # "rejected"
    /\ Generated(c) =>
         LET retained == Artifacts(c).packages IN
         /\ Len(retained) = Min(Cardinality(PublishedAccepted(Received(c))), 3)
         /\ \A i \in DOMAIN retained :
              \E ra \in PublishedAccepted(Received(c)) :
                /\ Received(c)[ra[1]].tag_name = retained[i].releaseTag
                /\ Received(c)[ra[1]].assets[ra[2]].name = retained[i].filename
                /\ Received(c)[ra[1]].assets[ra[2]].size = retained[i].size

OnlyPublishedAcceptedWitness ==
  /\ Generated(1)
  /\ Received(1) = <<rDraft, rFebruary>>
  /\ Len(Artifacts(1).packages) = 2
  /\ Artifacts(1).packages[1].filename = aZen.name
  /\ Artifacts(1).packages[1].releaseTag = rFebruary.tag_name

\* C10: with two calls interleaved at the awaits, each call's packages and
\* entry lists are built from the release list that call received, and are
\* what the call produces alone on that list.
CallsIndependent ==
  \A c \in Calls :
    /\ Generated(c) =>
         /\ Artifacts(c).packages = latestPackagesOf(Received(c))
         /\ readTar(gunzip(Artifacts(c).db)) = AsRead(dbEntriesOf(latestPackagesOf(Received(c))))
         /\ readTar(gunzip(Artifacts(c).files))
              = AsRead(filesEntriesOf(latestPackagesOf(Received(c))))
    /\ gen[c].state = "rejected" => ~upstream[c].ok

CallsIndependentWitness ==
  /\ pc[1] = "done"
  /\ pc[2] = "done"
  /\ Received(1) = <<rJanuary>>
  /\ Received(2) = <<rFebruary, rFebruaryRt>>
  /\ Len(Artifacts(1).packages) = 1
  /\ Len(Artifacts(2).packages) = 3
====
